---- MODULE Spec2Model ----
(* A model of zmk_locale_generator/generator.py: the LocaleGenerator      *)
(* (key table, codepoint name table, write_header) and the three dedupe  *)
(* passes of _get_key_definitions.                                        *)
(*                                                                        *)
(* A definition is the Python tuple (usage, value): <<usage, value>>,     *)
(* usage a record [modifiers, page, id] (HidUsage), value a one-character *)
(* string. Python lists and insertion-ordered dicts are sequences.        *)
EXTENDS Integers, Sequences, FiniteSets, TLC

VARIABLES
    keys,             \* LocaleGenerator.keys: sequence of [name, kind, ...]
    codepoint_names,  \* LocaleGenerator.codepoint_names: value -> [list, names]
    io,               \* the output stream: sequence of written lines
    err,              \* how the last write_header ended: "none" or the exception
    calls,            \* number of write_header calls made
    last,             \* arguments of the last write_header call
    ret,              \* result of the last direct _lookup_usage call
    loaded,           \* the two tables as __init__ loaded them
    raw,              \* input of the pipeline: list(_get_raw_definitions(layout))
    same_usage,       \* result of _dedupe_same_usage
    uppercase,        \* result of _dedupe_uppercase
    same_value,       \* result of _dedupe_same_value
    defs,             \* sorted result of _get_key_definitions
    first,            \* result of the first pipeline run, kept when it is fed back
    pc,               \* "input", "done", or the function last called on raw
    run               \* 1, then 2 once the result has been fed back

vars == <<keys, codepoint_names, io, err, calls, last, ret, loaded,
          raw, same_usage, uppercase, same_value, defs, first, pc, run>>

genVars == <<keys, codepoint_names, io, err, calls, last, ret, loaded>>
pipeVars == <<raw, same_usage, uppercase, same_value, defs, first, pc, run>>

-----------------------------------------------------------------------------
(* Bounds *)

MaxLen == 3        \* longest raw definition list
MaxCalls == 2      \* write_header calls per generator

-----------------------------------------------------------------------------
(* Usage model *)

Modifiers == {"LShift", "RShift", "LAlt"}

\* modifier sets the raw definitions of the pipeline runs are drawn from
ModSets == {{}, {"LShift"}, {"LAlt"}, {"RShift", "LAlt"}}

HidUsage(modifiers, page, id) == [modifiers |-> modifiers, page |-> page, id |-> id]

Ids == {4, 5}
Usages == {HidUsage(m, 7, i) : m \in ModSets, i \in Ids}

Values == {"a", "A", "b"}

\* ord(c)
CodePoint(c) ==
    CASE c = "a" -> 97
      [] c = "A" -> 65
      [] c = "b" -> 98
      [] c = "B" -> 66
      [] c = "!" -> 33
      [] c = "#" -> 35

\* str.lower() of a one-character string
Lower(c) ==
    CASE c = "A" -> "a"
      [] c = "B" -> "b"
      [] OTHER -> c

\* str.upper() of a one-character string
StrUpper(c) ==
    CASE c = "a" -> "A"
      [] c = "b" -> "B"
      [] OTHER -> c

\* str.casefold() of a one-character string
Casefold(c) ==
    CASE c = "A" -> "a"
      [] c = "B" -> "b"
      [] OTHER -> c

-----------------------------------------------------------------------------
(* Sequence helpers *)

Range(s) == {s[i] : i \in 1..Len(s)}

SeqsUpTo(S, n) == UNION {[1..k -> S] : k \in 0..n}

-----------------------------------------------------------------------------
(* The dedupe passes *)

\* util.unique(iterable, key): the items whose key was not seen before, in order
RECURSIVE UniqueFrom(_, _, _)
UniqueFrom(s, i, seen) ==
    IF i > Len(s) THEN <<>>
    ELSE IF s[i][1] \in seen THEN UniqueFrom(s, i + 1, seen)
    ELSE <<s[i]>> \o UniqueFrom(s, i + 1, seen \cup {s[i][1]})

_dedupe_same_usage(d) == UniqueFrom(d, 1, {})

_has_shift(modifiers) == "LShift" \in modifiers \/ "RShift" \in modifiers

_remove_shift(modifiers) == modifiers \ {"LShift", "RShift"}

\* mutant: compares with b's value uppercased, as the comment of the pass has it
is_duplicate_uppercase_upper(a, base_defs) ==
    IF ~_has_shift(a[1].modifiers) THEN FALSE
    ELSE LET base_mods == _remove_shift(a[1].modifiers)
         IN  \E i \in 1..Len(base_defs) :
                /\ a[2] = StrUpper(base_defs[i][2])
                /\ base_mods = base_defs[i][1].modifiers

is_duplicate_uppercase(a, base_defs) ==
    IF ~_has_shift(a[1].modifiers) THEN FALSE
    ELSE LET base_mods == _remove_shift(a[1].modifiers)
         IN  \E i \in 1..Len(base_defs) :
                /\ Casefold(a[2]) = Casefold(base_defs[i][2])
                /\ base_mods = base_defs[i][1].modifiers

_dedupe_uppercase(d) ==
    LET IsBase(x) == x[1].modifiers = {}
        IsMod(x) == x[1].modifiers # {}
        base_defs == SelectSeq(d, IsBase)
        mod_defs == SelectSeq(d, IsMod)
        Keep(x) == ~is_duplicate_uppercase(x, base_defs)
    IN  base_defs \o SelectSeq(mod_defs, Keep)

\* the keys of the defaultdict, in insertion order
RECURSIVE DictKeys(_, _, _)
DictKeys(s, i, seen) ==
    IF i > Len(s) THEN <<>>
    ELSE IF s[i][2] \in seen THEN DictKeys(s, i + 1, seen)
    ELSE <<s[i][2]>> \o DictKeys(s, i + 1, seen \cup {s[i][2]})

\* d[value]: the usages appended for value, in order
RECURSIVE DictGet(_, _, _)
DictGet(s, i, value) ==
    IF i > Len(s) THEN <<>>
    ELSE IF s[i][2] = value THEN <<s[i][1]>> \o DictGet(s, i + 1, value)
    ELSE DictGet(s, i + 1, value)

\* mutant: max for min
shortest_mods_max(seq) ==
    LET n(i) == Cardinality(seq[i].modifiers)
        best == CHOOSE i \in 1..Len(seq) :
                    /\ \A j \in 1..Len(seq) : n(i) >= n(j)
                    /\ \A j \in 1..(i - 1) : n(j) < n(i)
    IN  seq[best]

\* min(seq, key=len(modifiers)): the first element with the smallest key
shortest_mods(seq) ==
    LET n(i) == Cardinality(seq[i].modifiers)
        best == CHOOSE i \in 1..Len(seq) :
                    /\ \A j \in 1..Len(seq) : n(i) <= n(j)
                    /\ \A j \in 1..(i - 1) : n(j) > n(i)
    IN  seq[best]

\* mutant: keeps every entry tied for the fewest modifiers
_dedupe_same_value_ties(d) ==
    LET n(x) == Cardinality(x[1].modifiers)
        Fewest(x) == \A i \in 1..Len(d) : d[i][2] = x[2] => n(x) <= n(d[i])
    IN  SelectSeq(d, Fewest)

\* mutant: the dict is keyed by the casefolded value
_dedupe_same_value_casefold(d) ==
    LET folded == [i \in 1..Len(d) |-> <<d[i][1], Casefold(d[i][2])>>]
        ks == DictKeys(folded, 1, {})
    IN  [i \in 1..Len(ks) |-> <<shortest_mods(DictGet(folded, 1, ks[i])), ks[i]>>]

_dedupe_same_value(d) ==
    LET ks == DictKeys(d, 1, {})
    IN  [i \in 1..Len(ks) |-> <<shortest_mods(DictGet(d, 1, ks[i])), ks[i]>>]

\* mutant: the key is the value as it is
SortKeyCaseSensitive(d) == CodePoint(d[2])

\* the sort key: d[1].lower()
SortKey(d) == CodePoint(Lower(d[2]))

\* list.sort is stable: an item goes behind every item whose key is not larger
RECURSIVE InsertSorted(_, _)
InsertSorted(s, x) ==
    IF s = <<>> THEN <<x>>
    ELSE IF SortKey(s[Len(s)]) <= SortKey(x) THEN Append(s, x)
    ELSE Append(InsertSorted(SubSeq(s, 1, Len(s) - 1), x), s[Len(s)])

RECURSIVE SortFrom(_, _, _)
SortFrom(s, i, acc) ==
    IF i > Len(s) THEN acc ELSE SortFrom(s, i + 1, InsertSorted(acc, s[i]))

\* mutant: the lowered value is put in the place of the value, not used as a key
SortDefsLowered(d) == SortFrom([i \in 1..Len(d) |-> <<d[i][1], Lower(d[i][2])>>], 1, <<>>)

SortDefs(d) == SortFrom(d, 1, <<>>)

\* LocaleGenerator._get_key_definitions, from the raw definition list on;
\* the result of every step is kept
KeyDefinitions(r) ==
    LET d1 == _dedupe_same_usage(r)
        d2 == _dedupe_uppercase(d1)
        d3 == _dedupe_same_value(d2)
    IN  [same_usage |-> d1, uppercase |-> d2, same_value |-> d3, defs |-> SortDefs(d3)]

-----------------------------------------------------------------------------
(* The key table and _lookup_usage *)

NoUsage == HidUsage({}, 0, 0)

Usage(name, usage) == [name |-> name, kind |-> "usage", usage |-> usage, alias |-> ""]
KeyAlias(name, alias) == [name |-> name, kind |-> "alias", usage |-> NoUsage, alias |-> alias]
\* an entry that is neither a HidUsage nor a KeyAlias
Other(name) == [name |-> name, kind |-> "other", usage |-> NoUsage, alias |-> ""]

\* name in self.keys
HasKey(ks, name) == \E i \in 1..Len(ks) : ks[i].name = name

\* self.keys[name]
KeyEntry(ks, name) == ks[CHOOSE i \in 1..Len(ks) : ks[i].name = name]

Found(usage) == [ok |-> TRUE, error |-> "none", usage |-> usage]
Raise(error) == [ok |-> FALSE, error |-> error, usage |-> NoUsage]

\* mutant: an alias is followed once, its target has to be a usage
_lookup_usage_one_hop(ks, name) ==
    IF ~HasKey(ks, name) THEN Raise("KeyError")
    ELSE LET v == KeyEntry(ks, name)
         IN  CASE v.kind = "alias" ->
                    IF ~HasKey(ks, v.alias) THEN Raise("KeyError")
                    ELSE IF KeyEntry(ks, v.alias).kind = "usage"
                    THEN Found(KeyEntry(ks, v.alias).usage)
                    ELSE Raise("ValueError")
               [] v.kind = "usage" -> Found(v.usage)
               [] OTHER -> Raise("ValueError")

RECURSIVE _lookup_usage(_, _)
_lookup_usage(ks, name) ==
    IF ~HasKey(ks, name) THEN Raise("KeyError")
    ELSE LET v == KeyEntry(ks, name)
         IN  CASE v.kind = "alias" -> _lookup_usage(ks, v.alias)
               [] v.kind = "usage" -> Found(v.usage)
               [] OTHER -> Raise("ValueError")

-----------------------------------------------------------------------------
(* Raw definitions of a layout. A keymap is [modifiers, keys], keys the   *)
(* sequence of <<key, value>> items, key being the name get_zmk_name      *)
(* yields for the layout's key.                                           *)

\* one step of the loops of _get_raw_definitions: the definition of one key
RawDefinition(ks, keymap, item) ==
    LET r == _lookup_usage(ks, item[1])
    IN  IF ~r.ok THEN r
        ELSE IF keymap.modifiers # {}
        THEN Found(HidUsage(r.usage.modifiers \cup keymap.modifiers, r.usage.page, r.usage.id))
        ELSE r

\* list(self._get_raw_definitions(layout)): every definition, or the first error
RECURSIVE RawFrom(_, _, _, _, _)
RawFrom(ks, keymaps, m, k, acc) ==
    IF m > Len(keymaps) THEN [ok |-> TRUE, error |-> "none", defs |-> acc]
    ELSE IF k > Len(keymaps[m].keys) THEN RawFrom(ks, keymaps, m + 1, 1, acc)
    ELSE LET r == RawDefinition(ks, keymaps[m], keymaps[m].keys[k])
         IN  IF ~r.ok THEN [ok |-> FALSE, error |-> r.error, defs |-> <<>>]
             ELSE RawFrom(ks, keymaps, m, k + 1,
                          Append(acc, <<r.usage, keymaps[m].keys[k][2]>>))

_get_raw_definitions(ks, layout) == RawFrom(ks, layout.keymaps, 1, 1, <<>>)

_get_key_definitions(ks, layout) ==
    LET r == _get_raw_definitions(ks, layout)
    IN  IF ~r.ok THEN r
        ELSE [ok |-> TRUE, error |-> "none", defs |-> KeyDefinitions(r.defs).defs]

-----------------------------------------------------------------------------
(* Names *)

\* locale.upper()
Upper(locale) ==
    CASE locale = "de" -> "DE"
      [] locale = "fr" -> "FR"
      [] OTHER -> StrUpper(locale)

\* f"{locale.upper()}_{name}"
Prefixed(locale, name) == [prefix |-> Upper(locale), name |-> name]

\* [k for k, v in self.keys.items() if isinstance(v, KeyAlias) and v.alias in names]
RECURSIVE AliasesOf(_, _, _)
AliasesOf(ks, i, names) ==
    IF i > Len(ks) THEN <<>>
    ELSE IF ks[i].kind = "alias" /\ ks[i].alias \in Range(names)
    THEN <<ks[i].name>> \o AliasesOf(ks, i + 1, names)
    ELSE AliasesOf(ks, i + 1, names)

\* names += [...]: the list the table holds is extended in place, the list
\* made of a str is a new one
ExtendNames(cp, value, all) ==
    IF cp[value].list THEN [cp EXCEPT ![value].names = all] ELSE cp

\* _get_key_names: what it returns (none for None) and the table afterwards
_get_key_names(cp, ks, locale, value) ==
    IF value \notin DOMAIN cp THEN [none |-> TRUE, names |-> <<>>, cp |-> cp]
    ELSE LET names == cp[value].names
             all == names \o AliasesOf(ks, 1, names)
         IN  [none |-> FALSE,
              names |-> [i \in 1..Len(all) |-> Prefixed(locale, all[i])],
              cp |-> ExtendNames(cp, value, all)]

-----------------------------------------------------------------------------
(* write_header *)

NoName == [prefix |-> "", name |-> ""]

HeaderText(layout) ==
    [kind |-> "header", names |-> layout.names, name |-> NoName, usage |-> NoUsage, main |-> NoName]
Blank ==
    [kind |-> "blank", names |-> <<>>, name |-> NoName, usage |-> NoUsage, main |-> NoName]
\* f"#define {main} ({usage})\n"
DefineUsage(main, usage) ==
    [kind |-> "define", names |-> <<>>, name |-> main, usage |-> usage, main |-> NoName]
\* f"#define {alias} ({main})\n"
DefineAlias(alias, main) ==
    [kind |-> "alias", names |-> <<>>, name |-> alias, usage |-> NoUsage, main |-> main]

\* the writes of one iteration of the loop over defs
DefinitionLines(names, usage) ==
    IF names = <<>> THEN <<>>
    ELSE <<Blank, DefineUsage(names[1], usage)>>
         \o [i \in 1..(Len(names) - 1) |-> DefineAlias(names[i + 1], names[1])]

\* for usage, value in defs: the lines written and the table afterwards
RECURSIVE WriteDefinitions(_, _, _, _, _, _)
WriteDefinitions(cp, ks, locale, d, i, lines) ==
    IF i > Len(d) THEN [lines |-> lines, cp |-> cp]
    ELSE LET r == _get_key_names(cp, ks, locale, d[i][2])
         IN  WriteDefinitions(r.cp, ks, locale, d, i + 1,
                              lines \o DefinitionLines(r.names, d[i][1]))

-----------------------------------------------------------------------------
(* The generator's inputs *)

BaseKeys ==
    << Usage("A", HidUsage({}, 7, 4)),
       Usage("N1", HidUsage({}, 7, 30)),
       Usage("EXCLAMATION", HidUsage({"LShift"}, 7, 30)),
       KeyAlias("EXCL", "EXCLAMATION"),
       KeyAlias("BANG", "EXCL") >>

KeyTables ==
    { BaseKeys,
      Append(BaseKeys, KeyAlias("GHOST", "MISSING")),
      Append(BaseKeys, Other("BAD")) }

KeyNames == {"A", "N1", "EXCLAMATION", "EXCL", "BANG", "GHOST", "BAD", "MISSING", "Z"}

Str(s) == [list |-> FALSE, names |-> <<s>>]
List(l) == [list |-> TRUE, names |-> l]

\* no table names "#"
CodepointTables ==
    { ("a" :> Str("A")) @@ ("!" :> List(<<"EXCLAMATION", "EXCLAMATION_MARK">>)),
      ("a" :> Str("A")) @@ ("!" :> Str("EXCLAMATION")) }

Keymap(modifiers, ks) == [modifiers |-> modifiers, keys |-> ks]

Layouts ==
    { [names |-> <<"German">>,
       keymaps |-> << Keymap({}, << <<"A", "a">>, <<"N1", "#">> >>),
                      Keymap({"LShift"}, << <<"A", "A">>, <<"N1", "!">> >>) >>],
      [names |-> <<"French">>,
       keymaps |-> << Keymap({}, << <<"A", "a">>, <<"BANG", "!">> >>),
                      Keymap({"LAlt"}, << <<"EXCL", "#">> >>) >>],
      [names |-> <<"Ghost">>,
       keymaps |-> << Keymap({}, << <<"A", "a">>, <<"GHOST", "!">> >>) >>],
      [names |-> <<"Bad">>,
       keymaps |-> << Keymap({}, << <<"N1", "!">>, <<"BAD", "a">> >>) >>],
      [names |-> <<"Unknown">>,
       keymaps |-> << Keymap({}, << <<"A", "a">> >>),
                      Keymap({"LShift"}, << <<"Z", "A">> >>) >>] }

Locales == {"de", "fr"}

-----------------------------------------------------------------------------
(* The generator *)

NoCall == [locale |-> "", layout |-> [names |-> <<>>, keymaps |-> <<>>], start |-> 0]
NoResult == [name |-> "", result |-> Raise("none")]

NoPipe ==
    /\ raw = <<>>
    /\ same_usage = <<>>
    /\ uppercase = <<>>
    /\ same_value = <<>>
    /\ defs = <<>>
    /\ first = <<>>
    /\ pc = "generator"
    /\ run = 1

\* LocaleGenerator.__init__
Init ==
    /\ keys \in KeyTables
    /\ codepoint_names \in CodepointTables
    /\ loaded = [keys |-> keys, codepoint_names |-> codepoint_names]
    /\ io = <<>>
    /\ err = "none"
    /\ calls = 0
    /\ last = NoCall
    /\ ret = NoResult
    /\ NoPipe

\* LocaleGenerator.write_header(io, locale), layout being what get_layout gives
WriteHeader(locale, layout) ==
    /\ calls < MaxCalls
    /\ calls' = calls + 1
    /\ last' = [locale |-> locale, layout |-> layout, start |-> Len(io)]
    /\ LET r == _get_key_definitions(keys, layout)
       IN  IF ~r.ok
           THEN /\ err' = r.error
                /\ UNCHANGED <<io, codepoint_names>>
           ELSE LET w == WriteDefinitions(codepoint_names, keys, locale, r.defs, 1, <<>>)
                IN  /\ err' = "none"
                    /\ io' = io \o <<HeaderText(layout)>> \o w.lines
                    /\ codepoint_names' = w.cp
    /\ UNCHANGED <<keys, ret, loaded>>
    /\ UNCHANGED pipeVars

\* LocaleGenerator._lookup_usage(name), called on its own
LookupUsage(name) ==
    /\ ret' = [name |-> name, result |-> _lookup_usage(keys, name)]
    /\ UNCHANGED <<keys, codepoint_names, io, err, calls, last, loaded>>
    /\ UNCHANGED pipeVars

Next ==
    \/ \E locale \in Locales, layout \in Layouts : WriteHeader(locale, layout)
    \/ \E name \in KeyNames : LookupUsage(name)

Spec == Init /\ [][Next]_vars

-----------------------------------------------------------------------------
(* The pipeline on every raw definition list up to MaxLen *)

NoTables == [keys |-> <<>>, codepoint_names |-> <<>>]

NoGen ==
    /\ keys = <<>>
    /\ codepoint_names = <<>>
    /\ io = <<>>
    /\ err = "none"
    /\ calls = 0
    /\ last = NoCall
    /\ ret = NoResult
    /\ loaded = NoTables

PipeInit ==
    /\ NoGen
    /\ raw \in SeqsUpTo(Usages \X Values, MaxLen)
    /\ same_usage = <<>>
    /\ uppercase = <<>>
    /\ same_value = <<>>
    /\ defs = <<>>
    /\ first = <<>>
    /\ pc = "input"
    /\ run = 1

\* defs = self._get_key_definitions(layout), the raw definitions being raw
GetKeyDefinitions ==
    /\ pc = "input"
    /\ LET r == KeyDefinitions(raw)
       IN  /\ same_usage' = r.same_usage
           /\ uppercase' = r.uppercase
           /\ same_value' = r.same_value
           /\ defs' = r.defs
    /\ pc' = "done"
    /\ UNCHANGED <<raw, first, run>>
    /\ UNCHANGED genVars

\* the survivors are given to the pipeline again as a fresh raw list
Refeed ==
    /\ pc = "done"
    /\ run = 1
    /\ raw' = defs
    /\ first' = defs
    /\ run' = 2
    /\ pc' = "input"
    /\ UNCHANGED <<same_usage, uppercase, same_value, defs>>
    /\ UNCHANGED genVars

\* the passes called on their own, on any list
CallDedupeSameUsage ==
    /\ pc = "input"
    /\ run = 1
    /\ same_usage' = _dedupe_same_usage(raw)
    /\ pc' = "_dedupe_same_usage"
    /\ UNCHANGED <<raw, uppercase, same_value, defs, first, run>>
    /\ UNCHANGED genVars

CallDedupeUppercase ==
    /\ pc = "input"
    /\ run = 1
    /\ uppercase' = _dedupe_uppercase(raw)
    /\ pc' = "_dedupe_uppercase"
    /\ UNCHANGED <<raw, same_usage, same_value, defs, first, run>>
    /\ UNCHANGED genVars

CallDedupeSameValue ==
    /\ pc = "input"
    /\ run = 1
    /\ same_value' = _dedupe_same_value(raw)
    /\ pc' = "_dedupe_same_value"
    /\ UNCHANGED <<raw, same_usage, uppercase, defs, first, run>>
    /\ UNCHANGED genVars

PipeNext ==
    \/ GetKeyDefinitions
    \/ Refeed
    \/ CallDedupeSameUsage
    \/ CallDedupeUppercase
    \/ CallDedupeSameValue

PipeSpec == PipeInit /\ [][PipeNext]_vars

-----------------------------------------------------------------------------
(* Properties *)

Count(s, x) == Cardinality({i \in 1..Len(s) : s[i] = x})
ValuesOf(s) == {s[i][2] : i \in 1..Len(s)}
ModCount(d) == Cardinality(d[1].modifiers)
Shifted(u, shift) == HidUsage(u.modifiers \cup {shift}, u.page, u.id)
BaseUsages == {u \in Usages : u.modifiers = {}}

\* C1: the result of the full pipeline holds no two definitions with the same
\* usage code and no two definitions with the same character.
C1_NoDuplicates ==
    pc = "done" =>
        \A i, j \in 1..Len(defs) :
            i # j => defs[i][1] # defs[j][1] /\ defs[i][2] # defs[j][2]

\* a raw list repeating a usage code and repeating a character, two survivors
C1_Witness ==
    /\ pc = "done"
    /\ run = 1
    /\ \E i, j \in 1..Len(raw) : i # j /\ raw[i][1] = raw[j][1] /\ raw[i][2] # raw[j][2]
    /\ \E i, j \in 1..Len(raw) : i # j /\ raw[i][2] = raw[j][2] /\ raw[i][1] # raw[j][1]
    /\ Len(defs) = 2

\* C2: fed its own output as a fresh raw list, the pipeline yields the same set
\* of definitions, and no pass of the second run removes or changes one.
C2_Idempotent ==
    (pc = "done" /\ run = 2) =>
        /\ raw = first
        /\ Range(same_usage) = Range(first)
        /\ Range(uppercase) = Range(first)
        /\ Range(same_value) = Range(first)
        /\ Range(defs) = Range(first)

\* a second run over survivors that hold a shifted definition and two
\* characters equal up to case
C2_Witness ==
    /\ pc = "done"
    /\ run = 2
    /\ Len(first) >= 2
    /\ \E i \in 1..Len(first) : _has_shift(first[i][1].modifiers)
    /\ \E i, j \in 1..Len(first) :
          first[i][2] # first[j][2] /\ Casefold(first[i][2]) = Casefold(first[j][2])

\* C3: base (U0, 'a') with (U1 + shift, 'A'), U0 and U1 modifier-free and
\* different in page or id: both definitions are in the result.
C3_Pass2Negative ==
    \A u0, u1 \in BaseUsages, shift \in {"LShift", "RShift"} :
        ( /\ pc = "done"
          /\ run = 1
          /\ u0.page # u1.page \/ u0.id # u1.id
          /\ raw = << <<u0, "a">>, <<Shifted(u1, shift), "A">> >> )
        => {<<u0, "a">>, <<Shifted(u1, shift), "A">>} \subseteq Range(defs)

\* what C5 says pass 2 discards from the list s
C5_Discarded(s, a) ==
    /\ a[1].modifiers # {}
    /\ "LShift" \in a[1].modifiers \/ "RShift" \in a[1].modifiers
    /\ \E b \in Range(s) :
          /\ b[1].modifiers = {}
          /\ Casefold(b[2]) = Casefold(a[2])
          /\ b[1].modifiers = a[1].modifiers \ {"LShift", "RShift"}

C5_Pass2(in, out) ==
    /\ Range(out) \subseteq Range(in)
    /\ \A a \in Range(in) :
          Count(out, a) = IF C5_Discarded(in, a) THEN 0 ELSE Count(in, a)
    /\ \A a \in Range(in) :
          (a[1].modifiers = {} \/ ~_has_shift(a[1].modifiers)) => a \in Range(out)

C6_Pass3(in, out) ==
    /\ ValuesOf(out) = ValuesOf(in)
    /\ \A i, j \in 1..Len(out) : i # j => out[i][2] # out[j][2]
    /\ \A i \in 1..Len(out) :
          /\ out[i] \in Range(in)
          /\ \A d \in Range(in) : d[2] = out[i][2] => ModCount(out[i]) <= ModCount(d)

\* C6: pass 3 returns exactly one definition for every character of its input
\* and none for any other; the usage code is one the input pairs with the
\* character, with no more modifiers than any other the input pairs with it.
C6_Pass3Fewest ==
    /\ pc = "_dedupe_same_value" => C6_Pass3(raw, same_value)
    /\ pc = "done" => C6_Pass3(uppercase, same_value)

\* pass 3 called on a character with three usage codes, the one with the
\* fewest modifiers neither first nor last
C6_Witness ==
    /\ pc = "_dedupe_same_value"
    /\ Len(raw) = 3
    /\ Len(same_value) = 1
    /\ same_value[1] = raw[2]
    /\ ModCount(raw[2]) < ModCount(raw[1])
    /\ ModCount(raw[2]) < ModCount(raw[3])

\* the place of x in s
Pos(s, x) == CHOOSE i \in 1..Len(s) : s[i] = x

\* C7: the final list is in non-decreasing order of the lower-cased
\* character; definitions whose characters differ only by case are adjacent
\* and in the order they had in the result of pass 3.
C7_SortedStable ==
    pc = "done" =>
        /\ Len(defs) = Len(same_value)
        /\ Range(defs) = Range(same_value)
        /\ \A i, j \in 1..Len(defs) :
              i < j => CodePoint(Lower(defs[i][2])) <= CodePoint(Lower(defs[j][2]))
        /\ \A i, j, k \in 1..Len(defs) :
              (i < j /\ j < k /\ Lower(defs[i][2]) = Lower(defs[k][2]))
                  => Lower(defs[j][2]) = Lower(defs[i][2])
        /\ \A i, j \in 1..Len(same_value) :
              (i < j /\ Lower(same_value[i][2]) = Lower(same_value[j][2]))
                  => Pos(defs, same_value[i]) < Pos(defs, same_value[j])

\* three survivors that the sort reorders: 'b' first, then 'a' before 'A'
C7_Witness ==
    /\ pc = "done"
    /\ run = 1
    /\ Len(defs) = 3
    /\ <<same_value[1][2], same_value[2][2], same_value[3][2]>> = <<"b", "a", "A">>
    /\ <<defs[1][2], defs[2][2], defs[3][2]>> = <<"a", "A", "b">>

\* the names reached from name along aliases, name included
RECURSIVE Chain(_, _, _)
Chain(ks, name, n) ==
    IF n > 0 /\ HasKey(ks, name) /\ KeyEntry(ks, name).kind = "alias"
    THEN {name} \cup Chain(ks, KeyEntry(ks, name).alias, n - 1)
    ELSE {name}

\* the name or an alias target reached from it is absent, or an entry reached
\* is neither a usage code nor an alias
Unresolvable(ks, name) ==
    \E n \in Chain(ks, name, Len(ks)) :
        ~HasKey(ks, n) \/ KeyEntry(ks, n).kind = "other"

C8_Lookup ==
    ret.name # "" =>
        IF Unresolvable(keys, ret.name)
        THEN ~ret.result.ok
        ELSE /\ ret.result.ok
             /\ \E n \in Chain(keys, ret.name, Len(keys)) :
                   /\ KeyEntry(keys, n).kind = "usage"
                   /\ KeyEntry(keys, n).usage = ret.result.usage

LayoutKeys(layout) ==
    UNION {{layout.keymaps[m].keys[k][1] : k \in 1..Len(layout.keymaps[m].keys)} :
              m \in 1..Len(layout.keymaps)}

\* C8: a key name resolves to the usage code at the end of its alias chain,
\* over any number of hops; when the name or an alias target on the chain is
\* absent, or an entry reached is neither usage code nor alias, resolution
\* fails, and a write_header whose layout uses such a name ends with the error
\* and writes nothing.
C8_Resolve ==
    [][ /\ C8_Lookup'
        /\ (calls' # calls /\ \E n \in LayoutKeys(last'.layout) : Unresolvable(keys, n))
              => (err' # "none" /\ io' = io)
        /\ (calls' # calls /\ \A n \in LayoutKeys(last'.layout) : ~Unresolvable(keys, n))
              => (err' = "none" /\ Len(io') > Len(io)) ]_vars

\* a name resolved over two aliases, and a generation aborted by a dangling
\* alias after an earlier one had written its header
C8_Witness ==
    /\ ret.name = "BANG"
    /\ ret.result = Found(HidUsage({"LShift"}, 7, 30))
    /\ calls = 2
    /\ err = "KeyError"
    /\ last.layout.names = <<"Ghost">>
    /\ last.start = Len(io)
    /\ io # <<>>

\* the names C9 gives the character c, its fragments read in the table cp
C9_Names(cp, ks, locale, c) ==
    LET all == cp[c].names \o AliasesOf(ks, 1, cp[c].names)
    IN  [i \in 1..Len(all) |-> Prefixed(locale, all[i])]

RECURSIVE C9_Lines(_, _, _, _, _)
C9_Lines(cp, ks, locale, d, i) ==
    IF i > Len(d) THEN <<>>
    ELSE IF d[i][2] \notin DOMAIN cp THEN C9_Lines(cp, ks, locale, d, i + 1)
    ELSE LET names == C9_Names(cp, ks, locale, d[i][2])
         IN  <<Blank, DefineUsage(names[1], d[i][1])>>
             \o [j \in 1..(Len(names) - 1) |-> DefineAlias(names[j + 1], names[1])]
             \o C9_Lines(cp, ks, locale, d, i + 1)

\* C9: a surviving definition whose character the codepoint name table does
\* not name emits nothing; any other emits the table's fragments for the
\* character, in order, then the key-table names that are aliases of one of
\* those fragments, each with the uppercased locale and an underscore before
\* it, the first bound to the usage code and the others to the first.
C9_EmittedNames ==
    (calls > 0 /\ err = "none") =>
        SubSeq(io, last.start + 1, Len(io)) =
            <<HeaderText(last.layout)>>
            \o C9_Lines(loaded.codepoint_names, keys, last.locale,
                        _get_key_definitions(keys, last.layout).defs, 1)

\* C4: the key table and the codepoint name table hold what they held before
\* the first call, whatever headers were generated.
C4_InputsNeverMutated ==
    /\ keys = loaded.keys
    /\ codepoint_names = loaded.codepoint_names

\* the first raw definition with the usage code u
FirstWith(s, u) == s[CHOOSE i \in 1..Len(s) : s[i][1] = u /\ \A j \in 1..(i - 1) : s[j][1] # u]

\* C10: every definition of the result is a member of the raw list, its
\* character the one of the first raw definition with its usage code; pass 3
\* pairs no usage code with a character pass 1 did not pair it with.
C10_FirstClaimWins ==
    pc = "done" =>
        /\ \A i \in 1..Len(defs) :
              /\ defs[i] \in Range(raw)
              /\ defs[i] = FirstWith(raw, defs[i][1])
        /\ Range(same_value) \subseteq Range(same_usage)
        /\ Range(defs) \subseteq Range(same_usage)

\* a usage code claimed twice, with different characters, that survives, and
\* a character with two usage codes regrouped by pass 3
C10_Witness ==
    /\ pc = "done"
    /\ run = 1
    /\ Len(raw) = 3
    /\ raw[1][1] = raw[2][1]
    /\ raw[1][2] # raw[2][2]
    /\ raw[3][2] = raw[1][2]
    /\ raw[3][1] # raw[1][1]
    /\ \E i \in 1..Len(defs) : defs[i][1] = raw[1][1]

====
